---- MODULE Spec2Model ----
(***************************************************************************)
(* State-machine model of the durable audit pipeline of traceprompt-node:  *)
(* the persistent batcher (src/src/queue/persistentBatcher.ts), the ring   *)
(* buffer it keeps, the outbox file, the p-limit flush limiter, the retry  *)
(* loop of the transport (src/node/src/network/transport.ts and            *)
(* src/node/src/utils/retry.ts) and the SIGTERM/SIGINT shutdown.           *)
(*                                                                         *)
(* A record is identified by a number 1..MaxRec (its leafHash); an outbox  *)
(* line is the number of the record it serialises.  One action is one      *)
(* macrotask of the Node event loop: the completion of one filesystem or   *)
(* network operation together with all the synchronous code and promise    *)
(* continuations that run before the next real suspension.                 *)
(***************************************************************************)
EXTENDS Integers, Sequences, FiniteSets, TLC

\* ------------------------------------------------------------ bounds
MaxRec == 3          \* enqueue calls made in one run
MaxCalls == 1        \* flushOnce calls of the timer / of callers in flight
MaxInflight == 1     \* enqueue calls in flight at the same time
MaxBatch == 2        \* largest configured batchSize explored
AttemptCap == 5      \* an attempt counter that no limit stops saturates here
SentCap == 2         \* the delivery counters saturate here
MaxOld == 4          \* outbox lines a previous run of the process left behind
MaxPush == 5         \* ringPush calls applied when the ring is driven directly
MaxWrap == 3         \* wrapped LLM calls of one scenario
MaxInit == 3         \* calls of the initialisation functions
MaxCap == 3          \* largest capacity a RingBuffer is constructed with
MaxSend == 4         \* entries passed to send of the HTTP logger
MaxDepth == 2        \* nesting depth of the JSON values canonicalised
MaxRetriesArg == 6   \* largest maxRetries flushWithRetry is called with

\* ------------------------------------------------- program constants
MAX_FILE_BYTES == 5 * 1024 * 1024
WORKER_RETRIES == 5        \* flush-worker.ts: `item.attempt < 5`
WORKER_BACKOFF_MS == 100   \* flush-worker.ts: `2 ** item.attempt * 100`
LOGGER_RETRIES == 3        \* logger.ts: `attempt < 3`
LOGGER_BACKOFF_MS == 500   \* logger.ts: `500 * 2 ** attempt`
LOGGER_RING_FACTOR == 10   \* logger.ts: `new RingBuffer(batchSize * 10)`
RING_RETRIES == 3
DRAIN_RETRIES == 5
DRAIN_TIMEOUT_MS == 30000
BACKOFF_BASE_MS == 500
BACKOFF_CAP_MS == 4000
DEFAULT_RETRIES == 5
RecBytes == 1536 * 1024      \* serialised size of one outbox line: three lines
                             \* lie between 80% and 100% of MAX_FILE_BYTES

NaN == -1            \* Number(x) of a value that is not numeric
\* Values a caller can pass as the `retries` argument of Transport.post.
Num(n) == [kind |-> "number", n |-> n]
HEADERS == [kind |-> "object", n |-> 0]  \* {"Idempotency-Key": ...}

\* What the endpoint can answer to one fetch.  A fetch that rejects (no
\* response) takes the same path through retry() as a status >= 400.
HTTP_OK == 200
FailStatuses == {400, 429, 503}

Recs == 1..MaxRec
FlushIds == 0..MaxCalls      \* 0 is the call made by the shutdown code
SD == 0

VARIABLES outbox, ring, head, len, batchSize, urlValid, bootstrapDone,
          timerInitialized, flushTimer, closing, pLimitPromise, limit,
          waiters, limQueue, fl, enq, nEnq, sd, sent, nPosts, lastPost,
          exitCode, preShutdown, obs, chainHead, chainLog, wrapped,
          calls, batcher,
          config, buffer, worker, rb, logger, canonRun

vars == <<outbox, ring, head, len, batchSize, urlValid, bootstrapDone,
          timerInitialized, flushTimer, closing, pLimitPromise, limit,
          waiters, limQueue, fl, enq, nEnq, sd, sent, nPosts, lastPost,
          exitCode, preShutdown, obs, chainHead, chainLog, wrapped,
          calls, batcher,
          config, buffer, worker, rb, logger, canonRun>>

\* The whole program state as one record, so that a handler is a function
\* from state to state and handlers compose as the code composes them.
St ==
  [outbox |-> outbox, ring |-> ring, head |-> head, len |-> len,
   batchSize |-> batchSize, urlValid |-> urlValid,
   bootstrapDone |-> bootstrapDone, timerInitialized |-> timerInitialized,
   flushTimer |-> flushTimer, closing |-> closing,
   pLimitPromise |-> pLimitPromise, limit |-> limit, waiters |-> waiters,
   limQueue |-> limQueue, fl |-> fl, enq |-> enq, nEnq |-> nEnq, sd |-> sd,
   sent |-> sent, nPosts |-> nPosts, lastPost |-> lastPost,
   exitCode |-> exitCode, preShutdown |-> preShutdown, obs |-> obs,
   chainHead |-> chainHead, chainLog |-> chainLog, wrapped |-> wrapped,
   calls |-> calls, batcher |-> batcher,
   config |-> config,
   buffer |-> buffer,
   worker |-> worker,
   rb |-> rb,
   logger |-> logger,
   canonRun |-> canonRun]

\* The next state is the record s0; it is bound once so that the handler that
\* produces it is computed once per step.
Set(s0) == \E s \in {s0} :
  /\ outbox' = s.outbox /\ ring' = s.ring /\ head' = s.head /\ len' = s.len
  /\ batchSize' = s.batchSize /\ urlValid' = s.urlValid
  /\ bootstrapDone' = s.bootstrapDone
  /\ timerInitialized' = s.timerInitialized
  /\ flushTimer' = s.flushTimer /\ closing' = s.closing
  /\ pLimitPromise' = s.pLimitPromise /\ limit' = s.limit
  /\ waiters' = s.waiters /\ limQueue' = s.limQueue
  /\ fl' = s.fl /\ enq' = s.enq /\ nEnq' = s.nEnq /\ sd' = s.sd
  /\ sent' = s.sent /\ nPosts' = s.nPosts /\ lastPost' = s.lastPost
  /\ exitCode' = s.exitCode /\ preShutdown' = s.preShutdown
  /\ obs' = s.obs
  /\ chainHead' = s.chainHead /\ chainLog' = s.chainLog
  /\ wrapped' = s.wrapped
  /\ calls' = s.calls /\ batcher' = s.batcher
  /\ config' = s.config
  /\ buffer' = s.buffer
  /\ worker' = s.worker
  /\ rb' = s.rb
  /\ logger' = s.logger
  /\ canonRun' = s.canonRun

Min(a, b) == IF a < b THEN a ELSE b
Max(a, b) == IF a > b THEN a ELSE b

RECURSIVE Pow2(_)
Pow2(n) == IF n <= 0 THEN 1 ELSE 2 * Pow2(n - 1)

Range(q) == {q[i] : i \in 1..Len(q)}

RECURSIVE Without(_, _)
Without(q, x) ==
  IF q = <<>> THEN <<>>
  ELSE IF Head(q) = x THEN Without(Tail(q), x)
  ELSE <<Head(q)>> \o Without(Tail(q), x)

\* ------------------------------------------------------- ring buffer
getMaxRamRecords(s) == s.batchSize * 2

\* ringPush without the `len < maxRecords` test: the length always grows.
ringPushUnchecked(s, item) ==
  [s EXCEPT !.ring[(s.head + s.len) % getMaxRamRecords(s)] = item,
            !.len = s.len + 1]

\* ringPush that does not advance head when the ring is full.
ringPushNoAdvance(s, item) ==
  [s EXCEPT !.ring[(s.head + s.len) % getMaxRamRecords(s)] = item,
            !.len = Min(s.len + 1, getMaxRamRecords(s))]

ringPush(s, item) ==
  LET maxRecords == getMaxRamRecords(s)
      r1 == [s.ring EXCEPT ![(s.head + s.len) % maxRecords] = item]
  IN  IF s.len < maxRecords
      THEN [s EXCEPT !.ring = r1, !.len = s.len + 1]
      ELSE [s EXCEPT !.ring = r1, !.head = (s.head + 1) % maxRecords]

RECURSIVE ringDripLoop(_, _, _)
ringDripLoop(s, n, out) ==
  IF Len(out) < n /\ s.len > 0
  THEN ringDripLoop([s EXCEPT !.head = (s.head + 1) % getMaxRamRecords(s),
                              !.len = s.len - 1],
                    n, Append(out, s.ring[s.head]))
  ELSE [st |-> s, out |-> out]

ringDrip(s, n) == ringDripLoop(s, n, <<>>)

\* The items of the ring, oldest first.
RingItems(s) ==
  [i \in 1..s.len |-> s.ring[(s.head + i - 1) % getMaxRamRecords(s)]]

\* --------------------------------------------------- timer, bootstrap
initializeTimer(s) ==
  IF s.timerInitialized THEN s
  ELSE [s EXCEPT !.timerInitialized = TRUE, !.flushTimer = "active"]

bootstrapFinish(s) == [s EXCEPT !.bootstrapDone = TRUE]


\* ------------------------------------------------ append (enqueue)
\* appendFile has been issued; the write is in flight.
appendIssue(s, r) == [initializeTimer(s) EXCEPT !.enq[r] = "append"]

\* append without the `if (closing) throw` of its first lines.
appendUnguarded(s, r) ==
  LET s0 == [s EXCEPT !.nEnq = r]
  IN  IF s0.bootstrapDone THEN appendIssue(s0, r)
      ELSE [s0 EXCEPT !.enq[r] = "boot"]

\* PersistentBatcher.enqueue is called for record r.
append(s, r) ==
  LET s0 == [s EXCEPT !.nEnq = r]
  IN  IF s0.closing THEN [s0 EXCEPT !.enq[r] = "shutdownErr"]
      ELSE IF s0.bootstrapDone THEN appendIssue(s0, r)
      ELSE [s0 EXCEPT !.enq[r] = "boot"]

\* fs.mkdir of bootstrap() completed for the enqueue of r.
appendBooted(s, r) == appendIssue(bootstrapFinish(s), r)

\* fs.appendFile completed: the line is in the file, then ringPush, then
\* fs.stat is issued.
appendWritten(s, r) ==
  [ringPush([s EXCEPT !.outbox = Append(s.outbox, r)], r)
     EXCEPT !.enq[r] = "stat"]

fileSize(s) == Len(s.outbox) * RecBytes

\* fs.stat completed: backpressure check, then the call returns.
appendStatted(s, r) ==
  IF fileSize(s) > MAX_FILE_BYTES
  THEN [s EXCEPT !.enq[r] = "backpressure"]
  ELSE [s EXCEPT !.enq[r] = "ok"]

\* ------------------------------------------------------ flushOnce
IdleCall ==
  [pc |-> "idle", lim |-> 0, late |-> FALSE,
   ringRecords |-> <<>>, batch |-> <<>>, diskLines |-> <<>>, total |-> 0,
   attempt |-> 0, status |-> HTTP_OK, wr |-> <<>>, fileAtRead |-> <<>>]

\* The phases of the function passed to limit(): from ringDrip to the end
\* of the POST, the outbox rewrite or the restore.
BodyPcs ==
  {"reading", "posting", "backoff", "writing", "restoreRead", "restoreWrite"}

InBody(s, c) == s.fl[c].pc \in BodyPcs

LimiterBusy(s, L) == \E c \in FlushIds : s.fl[c].lim = L /\ InBody(s, c)

\* The limiter runs the function: ringDrip, then the outbox read is issued.
flushBody(s, c) ==
  LET d == ringDrip(s, s.batchSize)
  IN  [d.st EXCEPT !.fl[c].pc = "reading",
                   !.fl[c].ringRecords = d.out,
                   !.fl[c].batch = d.out]

\* limit(fn) on the limiter L: run now if L is free, else queue.
limitSubmit(s, c, L) ==
  LET s1 == [s EXCEPT !.fl[c].lim = L]
  IN  IF LimiterBusy(s1, L)
      THEN [s1 EXCEPT !.fl[c].pc = "queued", !.limQueue = Append(@, c)]
      ELSE flushBody(s1, c)

\* flushOnce after `await bootstrap()`: initializeTimer, then the limiter.
flushAfterBoot(s, c) ==
  LET s1 == initializeTimer(s)
  IN  IF s1.limit = 0
      THEN [s1 EXCEPT !.pLimitPromise =
                         IF @ = "null" THEN "pending" ELSE @,
                      !.waiters = Append(@, c),
                      !.fl[c].pc = "getPLimit"]
      ELSE limitSubmit(s1, c, s1.limit)

\* flushOnce() is called (by the timer, a caller or the shutdown code).
flushOnce(s, c, byTimer) ==
  LET s1 == [s EXCEPT !.fl[c] =
               [IdleCall EXCEPT !.late = byTimer /\ s.closing]]
  IN  IF s1.bootstrapDone THEN flushAfterBoot(s1, c)
      ELSE [s1 EXCEPT !.fl[c].pc = "boot"]

flushBooted(s, c) == flushAfterBoot(bootstrapFinish(s), c)

\* import("p-limit") resolved: every call waiting on it continues, in the
\* order of the calls; each one sees its own `limit = pLimit(1)`.
RECURSIVE pLimitResume(_, _)
pLimitResume(s, ws) ==
  IF ws = <<>> THEN s
  ELSE LET c == Head(ws)
           L == c + 1
       IN  pLimitResume(limitSubmit([s EXCEPT !.limit = L], c, L), Tail(ws))

pLimitLoaded(s) ==
  pLimitResume([s EXCEPT !.pLimitPromise = "resolved", !.waiters = <<>>],
               s.waiters)

\* --------------------------------------------- shutdown continuation
exit(s, code) == [s EXCEPT !.exitCode = code, !.sd.pc = "exited"]

\* The delay without Math.min.
backoffUncapped(attempt) == BACKOFF_BASE_MS * Pow2(attempt - 1)

backoffMs(attempt) ==
  Min(BACKOFF_BASE_MS * Pow2(attempt - 1), BACKOFF_CAP_MS)

\* Head of the while loop of drainOutboxWithRetry: deadline check, then the
\* outbox read is issued; past the deadline the function throws and the
\* signal handler exits with 1.
drainLoop(s) ==
  IF s.sd.elapsed < DRAIN_TIMEOUT_MS
  THEN [s EXCEPT !.sd.pc = "drainRead", !.sd.dattempt = @ + 1]
  ELSE exit(s, 1)

\* The flushOnce awaited by flushWithRetry settled with res.  In the phase
\* "call" flushWithRetry was called on its own, and its caller sees it
\* return or throw.
sdFlushReturned(s, res) ==
  IF res # "err"
  THEN IF s.sd.phase = "call" THEN [s EXCEPT !.sd.pc = "returned"]
       ELSE IF s.sd.phase = "ring"
       THEN drainLoop([s EXCEPT !.sd.phase = "drain", !.sd.elapsed = 0,
                                !.sd.dattempt = 0])
       ELSE drainLoop(s)
  ELSE IF s.sd.attempt = s.sd.max
       THEN IF s.sd.phase = "call" THEN [s EXCEPT !.sd.pc = "threw"]
            ELSE IF s.sd.phase = "ring" THEN exit(s, 1)
            ELSE [s EXCEPT !.sd.pc = "drainDelay"]
       ELSE [s EXCEPT !.sd.pc = "retryDelay"]

\* ------------------------------------------------- flushOnce, go on
\* The function given to limit() settled: the limiter starts the next
\* queued function, and the caller of flushOnce continues.
flushFinish(s, c, res) ==
  LET L == s.fl[c].lim
      s1 == [s EXCEPT !.fl[c] = IdleCall]
      q == SelectSeq(s1.limQueue, LAMBDA d : s1.fl[d].lim = L)
      s2 == IF q = <<>> THEN s1
            ELSE flushBody([s1 EXCEPT !.limQueue = Without(@, Head(q))],
                           Head(q))
  IN  IF c = SD THEN sdFlushReturned(s2, res) ELSE s2

\* The for-await loop over the outbox lines when the ring gave fewer than
\* batchSize records.
\* The loop without the test `diskBatch.length < needed`.
RECURSIVE readLoopGreedy(_, _, _, _, _, _)
readLoopGreedy(lines, i, needed, diskBatch, diskLines, total) ==
  IF i > Len(lines)
  THEN [diskBatch |-> diskBatch, diskLines |-> diskLines, total |-> total]
  ELSE LET db == Append(diskBatch, lines[i])
           dl == Append(diskLines, lines[i])
           t  == total + 1
       IN  IF Len(db) >= needed /\ t >= needed * 2
           THEN [diskBatch |-> db, diskLines |-> dl, total |-> t]
           ELSE readLoopGreedy(lines, i + 1, needed, db, dl, t)

RECURSIVE readLoop(_, _, _, _, _, _)
readLoop(lines, i, needed, diskBatch, diskLines, total) ==
  IF i > Len(lines)
  THEN [diskBatch |-> diskBatch, diskLines |-> diskLines, total |-> total]
  ELSE LET db == IF Len(diskBatch) < needed
                 THEN Append(diskBatch, lines[i]) ELSE diskBatch
           dl == Append(diskLines, lines[i])
           t  == total + 1
       IN  IF Len(db) >= needed /\ t >= needed * 2
           THEN [diskBatch |-> db, diskLines |-> dl, total |-> t]
           ELSE readLoop(lines, i + 1, needed, db, dl, t)

\* Number(x) as JavaScript converts the right operand of >=.
numberOf(x) == IF x.kind = "number" THEN x.n ELSE NaN

\* retry(): `if (attempt >= attempts) throw err`; a comparison with NaN is
\* false.
retryExhausted(attempt, attempts) ==
  LET n == numberOf(attempts)
  IN  IF n = NaN THEN FALSE ELSE attempt >= n

\* `attempt++`.  When the limit is NaN no value of the counter ends the
\* loop, so the counter is kept only up to AttemptCap.
nextAttempt(attempt, attempts) ==
  IF numberOf(attempts) = NaN THEN Min(attempt + 1, AttemptCap)
  ELSE attempt + 1

\* What flushOnce passes as the third argument (`retries`) of
\* Transport.post.
postRetriesArg == HEADERS

\* catch branch of flushOnce: restore the ring records, then rethrow.
postRejected(s, c) ==
  IF Len(s.fl[c].ringRecords) > 0
  THEN [s EXCEPT !.fl[c].pc = "restoreRead"]
  ELSE flushFinish(s, c, "err")

\* Transport.post / sendJson: the URL is built, then retry() starts the
\* first fetch.
transportPost(s, c) ==
  IF ~s.urlValid THEN postRejected(s, c)
  ELSE [s EXCEPT !.fl[c].pc = "posting", !.fl[c].attempt = 1]

\* The read of the outbox completed: compose the batch and POST it.
flushRead(s, c) ==
  LET f == s.fl[c]
      lines == s.outbox
      rd == IF Len(f.batch) < s.batchSize
            THEN readLoop(lines, 1, s.batchSize - Len(f.batch),
                          <<>>, <<>>, 0)
            ELSE [diskBatch |-> <<>>, diskLines |-> lines,
                  total |-> Len(lines)]
      s1 == [s EXCEPT !.fl[c].batch = f.batch \o rd.diskBatch,
                      !.fl[c].diskLines = rd.diskLines,
                      !.fl[c].total = rd.total,
                      !.fl[c].fileAtRead = lines]
  IN  IF s1.fl[c].batch = <<>> THEN flushFinish(s1, c, "nothing")
      ELSE transportPost(s1, c)

diskRecordsUsed(f) == Max(0, Len(f.batch) - Len(f.ringRecords))

\* What the success branch writes to the outbox.
remainingLines(f) ==
  SubSeq(f.diskLines, diskRecordsUsed(f) + 1, Len(f.diskLines))

\* A fetch answered with a status below 400: Transport.post resolves and
\* the success branch runs.
flushPosted(s, c) ==
  LET f == s.fl[c]
      s1 == [s EXCEPT !.sent = [r \in Recs |->
                                  IF r \in Range(f.batch)
                                  THEN Min(@[r] + 1, SentCap) ELSE @[r]],
                      !.nPosts = Min(@ + 1, SentCap),
                      !.lastPost = f.batch]
  IN  IF f.total > 0 /\ diskRecordsUsed(f) > 0
      THEN [s1 EXCEPT !.fl[c].pc = "writing",
                      !.fl[c].wr = remainingLines(f)]
      ELSE flushFinish(s1, c, "sent")

\* sendJson: the callback given to retry() throws when the fetch rejects or
\* the response has `res.status >= 400`.
fetchThrows(status) == status >= 400

\* The headers sendJson puts on the request.
fetchHeaders ==
  ("content-type" :> "application/json") @@
  ("user-agent" :> "traceprompt-sdk/0.1.0") @@
  ("x-api-key" :> "apiKey")

\* A fetch failed with `status`: the catch of retry() does not look at the
\* error; it rethrows when the attempts are used up and otherwise sleeps for
\* the jittered backoff.
flushHttpFailed(s, c, status) ==
  IF retryExhausted(s.fl[c].attempt, postRetriesArg)
  THEN postRejected(s, c)
  ELSE [s EXCEPT !.fl[c].pc = "backoff", !.fl[c].status = status]

\* The backoff sleep of retry() ended: `attempt++` and the next fetch.
flushRetrySlept(s, c) ==
  [s EXCEPT !.fl[c].pc = "posting",
            !.fl[c].status = HTTP_OK,
            !.fl[c].attempt = nextAttempt(@, postRetriesArg)]

\* fs.writeFile of the success branch completed.
flushWritten(s, c) ==
  flushFinish([s EXCEPT !.outbox = s.fl[c].wr], c, "sent")

\* fs.readFile of the restore completed; the rewrite is issued.
flushRestoreRead(s, c) ==
  [s EXCEPT !.fl[c].pc = "restoreWrite",
            !.fl[c].wr = s.fl[c].ringRecords \o s.outbox]

\* fs.writeFile of the restore completed; the error is rethrown.
flushRestoreWritten(s, c) ==
  flushFinish([s EXCEPT !.outbox = s.fl[c].wr], c, "err")

\* ----------------------------------------------------- shutdown
flushWithRetry(s, maxRetries) ==
  flushOnce([s EXCEPT !.sd.pc = "flush", !.sd.attempt = 1,
                      !.sd.max = maxRetries], SD, FALSE)

\* SIGTERM / SIGINT handler: gracefulShutdown up to its first suspension.
\* preShutdown records which enqueue calls had returned successfully by then.
gracefulShutdown(s) ==
  LET s1 == [s EXCEPT !.closing = TRUE,
                      !.flushTimer = IF @ = "active" THEN "cleared" ELSE @,
                      !.sd.phase = "ring",
                      !.preShutdown = {r \in Recs : s.enq[r] = "ok"}]
  IN  flushWithRetry(s1, RING_RETRIES)

\* The backoff sleep of flushWithRetry ended: next attempt.
sdRetryDelayed(s) ==
  flushOnce([s EXCEPT !.sd.pc = "flush",
                      !.sd.elapsed =
                         IF s.sd.phase \in {"drain", "call"}
                         THEN Min(@ + backoffMs(s.sd.attempt),
                                  DRAIN_TIMEOUT_MS)
                         ELSE @,
                      !.sd.attempt = @ + 1], SD, FALSE)

\* The outbox read of drainOutboxWithRetry completed.
sdDrainRead(s) ==
  IF s.outbox = <<>> THEN exit(s, 0)
  ELSE flushWithRetry(s, DRAIN_RETRIES)

\* The sleep in the catch of drainOutboxWithRetry ended.
sdDrainDelayed(s) ==
  drainLoop([s EXCEPT !.sd.elapsed =
                         Min(@ + backoffMs(s.sd.dattempt),
                             DRAIN_TIMEOUT_MS)])

\* ------------------------------------------------------- actions
Running == exitCode = -1

FreeSlot(c) ==
  /\ c \in 1..MaxCalls
  /\ fl[c].pc = "idle"
  /\ \A d \in 1..(c - 1) : fl[d].pc # "idle"

InFlight == {r \in Recs : enq[r] \in {"boot", "append", "stat"}}

Enqueue(r) ==
  /\ Running /\ r = nEnq + 1
  /\ Cardinality(InFlight) < MaxInflight
  /\ Set(append(St, r))
EnqBooted(r) == Running /\ enq[r] = "boot" /\ Set(appendBooted(St, r))
EnqWritten(r) == Running /\ enq[r] = "append" /\ Set(appendWritten(St, r))
EnqStatted(r) == Running /\ enq[r] = "stat" /\ Set(appendStatted(St, r))

TimerTick(c) ==
  Running /\ flushTimer = "active" /\ FreeSlot(c)
  /\ Set(flushOnce(St, c, TRUE))
CallerFlush(c) ==
  Running /\ FreeSlot(c) /\ Set(flushOnce(St, c, FALSE))
FlushBooted(c) == Running /\ fl[c].pc = "boot" /\ Set(flushBooted(St, c))
PLimitLoaded == Running /\ pLimitPromise = "pending" /\ Set(pLimitLoaded(St))
FlushRead(c) == Running /\ fl[c].pc = "reading" /\ Set(flushRead(St, c))
HttpOk(c) ==
  /\ Running /\ fl[c].pc = "posting"
  /\ ~fetchThrows(HTTP_OK) /\ Set(flushPosted(St, c))
HttpFail(c) ==
  /\ Running /\ fl[c].pc = "posting"
  /\ \E status \in FailStatuses :
        fetchThrows(status) /\ Set(flushHttpFailed(St, c, status))
RetrySlept(c) ==
  Running /\ fl[c].pc = "backoff" /\ Set(flushRetrySlept(St, c))
FlushWritten(c) == Running /\ fl[c].pc = "writing" /\ Set(flushWritten(St, c))
RestoreRead(c) ==
  Running /\ fl[c].pc = "restoreRead" /\ Set(flushRestoreRead(St, c))
RestoreWritten(c) ==
  Running /\ fl[c].pc = "restoreWrite" /\ Set(flushRestoreWritten(St, c))

Signal == Running /\ sd.pc = "running" /\ Set(gracefulShutdown(St))
SdRetryDelayed == Running /\ sd.pc = "retryDelay" /\ Set(sdRetryDelayed(St))
SdDrainRead == Running /\ sd.pc = "drainRead" /\ Set(sdDrainRead(St))
SdDrainDelayed == Running /\ sd.pc = "drainDelay" /\ Set(sdDrainDelayed(St))

\* The state after module load when the outbox file holds `file`.
\* ------------------------------------------------------------ hash chain
\* A JSON object is the sequence of its <<key, value>> pairs in insertion
\* order.  Of the fields of an audit entry the model keeps ts, prompt,
\* prevHash and hash; values are strings.
WrapIds == 1..MaxWrap
Prompts == {"hi", "yo"}
Clock == {"t0", "t1"}
NullHash == <<>>

\* Rank of a key in the order of Array.prototype.sort on the keys.
KeyRank == ("hash" :> 1) @@ ("prevHash" :> 2) @@ ("prompt" :> 3) @@ ("ts" :> 4)

canonical(v) == SortSeq(v, LAMBDA a, b : KeyRank[a[1]] < KeyRank[b[1]])

\* BLAKE3 taken as collision-free: the digest determines the payload.
digest(payload) == <<"blake3", payload>>

\* link that leaves chainHead as it was.
linkKeepHead(s, core) ==
  [st |-> s,
   entry |-> [core |-> core, prevHash |-> s.chainHead,
              hash |-> digest(canonical(core))]]

link(s, core) ==
  LET canon == canonical(core)
      hash == digest(canon)
      entry == [core |-> core, prevHash |-> s.chainHead, hash |-> hash]
  IN  [st |-> [s EXCEPT !.chainHead = hash], entry |-> entry]

\* logger.send: the entry goes to the write-ahead log (or the fallback file)
\* in the order of the calls.
send(s, entry) == [s EXCEPT !.chainLog = Append(@, entry)]

wrapBase(prompt, ts) ==
  << <<"ts", ts>>, <<"prompt", prompt>>, <<"prevHash", "null">>,
     <<"hash", "">> >>

\* The proxy's continuation after the awaited completion call.
wrapReturned(s, c, ts) ==
  LET l == link(s, wrapBase(s.wrapped[c].prompt, ts))
  IN  send([l.st EXCEPT !.wrapped[c].pc = "done"], l.entry)

\* ------------------------------------- wrapLLM and the in-memory Batcher
\* A record is named by the wrapped call that produced it.  What a wrapped
\* call settles with is a pair <<kind, call>>.
Undefined == <<"undefined", 0>>
LlmResult(c) == <<"result", c>>
LlmError(c) == <<"LlmError", c>>
TypeError(c) == <<"TypeError", c>>
EncryptError(c) == <<"EncryptError", c>>

IdleWrap == [pc |-> "idle", llm |-> "pending", value |-> Undefined]

Signals == {"SIGINT", "SIGTERM", "beforeExit"}

\* No BatcherClass instance yet.  batch is the argument of the flushBatch
\* call in flight, awaited tells that a signal handler awaits that flush,
\* ingested lists the records the endpoint has accepted and enqueued the
\* records that were ever pushed.
NoBatcher ==
  [inst |-> FALSE, queue |-> <<>>, flushing |-> FALSE, batch |-> <<>>,
   handlers |-> {}, awaited |-> FALSE, exited |-> FALSE, ingested |-> <<>>,
   flushFailures |-> 0, enqueued |-> {}]

BatcherClass(s) ==
  [s EXCEPT !.batcher.inst = TRUE, !.batcher.handlers = Signals]

\* flush() returns at once, without a flushBatch call.
flushReturnsAtOnce(s) == s.batcher.flushing \/ Len(s.batcher.queue) = 0

\* BatcherClass.flush up to `await flushBatch(batch)`.
BatcherFlush(s) ==
  IF flushReturnsAtOnce(s) THEN s
  ELSE LET q == s.batcher.queue
           n == Min(s.batchSize, Len(q))
       IN  [s EXCEPT !.batcher.flushing = TRUE,
                     !.batcher.batch = SubSeq(q, 1, n),
                     !.batcher.queue = SubSeq(q, n + 1, Len(q))]

\* Batcher.enqueue: the instance is created on first use.
BatcherEnqueue(s, item) ==
  LET s1 == IF s.batcher.inst THEN s ELSE BatcherClass(s)
      s2 == [s1 EXCEPT !.batcher.queue = Append(@, item),
                       !.batcher.enqueued = @ \cup {item}]
  IN  IF Len(s2.batcher.queue) >= s2.batchSize THEN BatcherFlush(s2) ELSE s2

\* BatcherClass.flush from the settlement of flushBatch on: the catch branch
\* re-inserts queue.splice(0, 0), which is empty, and counts the failure.
BatcherFlushSettled(s, ok) ==
  LET s1 == IF ok
            THEN [s EXCEPT !.batcher.ingested = @ \o s.batcher.batch]
            ELSE [s EXCEPT !.batcher.flushFailures = @ + 1]
      s2 == [s1 EXCEPT !.batcher.batch = <<>>, !.batcher.flushing = FALSE]
  IN  IF s.batcher.awaited
      THEN [s2 EXCEPT !.batcher.awaited = FALSE, !.batcher.exited = TRUE]
      ELSE s2

\* The process.once handler of a signal: await this.flush(), then
\* process.exit().
BatcherOnSignal(s, sig) ==
  LET s1 == [s EXCEPT !.batcher.handlers = @ \ {sig}]
  IN  IF flushReturnsAtOnce(s1)
      THEN [s1 EXCEPT !.batcher.exited = TRUE]
      ELSE [BatcherFlush(s1) EXCEPT !.batcher.awaited = TRUE]

\* llmSettled that resolves with undefined when originalFn rejects.
llmSettledSwallow(s, c, llmOk, jsonOk) ==
  IF ~llmOk
  THEN [s EXCEPT !.calls[c] =
          [pc |-> "resolved", llm |-> "rejected", value |-> Undefined]]
  ELSE IF ~jsonOk
  THEN [s EXCEPT !.calls[c] =
          [pc |-> "rejected", llm |-> "resolved", value |-> TypeError(c)]]
  ELSE [s EXCEPT !.calls[c] =
          [pc |-> "encrypting", llm |-> "resolved", value |-> Undefined]]

\* wrapped, from the settlement of `await originalFn(prompt, params)` to
\* `await encryptBuffer(...)`; JSON.stringify throws on a result it cannot
\* serialise.  Nothing is caught.
llmSettled(s, c, llmOk, jsonOk) ==
  IF ~llmOk
  THEN [s EXCEPT !.calls[c] =
          [pc |-> "rejected", llm |-> "rejected", value |-> LlmError(c)]]
  ELSE IF ~jsonOk
  THEN [s EXCEPT !.calls[c] =
          [pc |-> "rejected", llm |-> "resolved", value |-> TypeError(c)]]
  ELSE [s EXCEPT !.calls[c] =
          [pc |-> "encrypting", llm |-> "resolved", value |-> Undefined]]

\* wrapped, from the settlement of encryptBuffer to its return.
encryptSettled(s, c, ok) ==
  IF ~ok
  THEN [s EXCEPT !.calls[c].pc = "rejected",
                 !.calls[c].value = EncryptError(c)]
  ELSE [BatcherEnqueue(s, c) EXCEPT !.calls[c].pc = "resolved",
                                    !.calls[c].value = LlmResult(c)]

\* ---------------------------------------------------------- initialisation
\* The three initialisation functions of the repository side by side, each
\* with its own state: ConfigManagerClass.load (config.ts; field cfg), its
\* asynchronous version (fields cfgAsync, loadPromise, loading) and
\* initSettings of the sdk (field settings).  inits logs every call: the
\* function, its argument, how it ended, and the configuration that was
\* loaded when it was made.
Unset == "unset"
UserCfgs == {"A", "B", "invalid"}

NoConfig ==
  [cfg |-> Unset, cfgAsync |-> Unset, loadPromise |-> "none",
   loading |-> Unset, settings |-> Unset, inits |-> <<>>]

initLogged(s, fn, arg, result, loaded) ==
  [s EXCEPT !.config.inits =
     Append(@, [fn |-> fn, arg |-> arg, result |-> result,
                loaded |-> loaded])]

load(s, userCfg) ==
  LET was == s.config.cfg
  IN  IF was # Unset THEN initLogged(s, "load", userCfg, "ok", was)
      ELSE IF userCfg = "invalid"
      THEN initLogged(s, "load", userCfg, "throw", was)
      ELSE initLogged([s EXCEPT !.config.cfg = userCfg],
                      "load", userCfg, "ok", was)

\* The asynchronous load up to its first await.
loadAsync(s, userCfg) ==
  LET was == s.config.cfgAsync
      p == s.config.loadPromise
  IN  IF was # Unset THEN initLogged(s, "loadAsync", userCfg, "ok", was)
      ELSE IF p = "pending"
      THEN initLogged(s, "loadAsync", userCfg, "pending", was)
      ELSE IF p = "rejected"
      THEN initLogged(s, "loadAsync", userCfg, "throw", was)
      ELSE IF userCfg = "invalid"
      THEN initLogged([s EXCEPT !.config.loadPromise = "rejected"],
                      "loadAsync", userCfg, "throw", was)
      ELSE initLogged([s EXCEPT !.config.loadPromise = "pending",
                                !.config.loading = userCfg],
                      "loadAsync", userCfg, "pending", was)

\* _doLoad from the settlement of resolveOrgFromApiKey on; the calls that
\* await loadPromise settle with it.
doLoadSettled(s, ok) ==
  LET result == IF ok THEN "ok" ELSE "throw"
      log == [i \in 1..Len(s.config.inits) |->
                IF s.config.inits[i].result = "pending"
                THEN [s.config.inits[i] EXCEPT !.result = result]
                ELSE s.config.inits[i]]
  IN  [s EXCEPT !.config.inits = log,
                !.config.loadPromise = IF ok THEN "fulfilled" ELSE "rejected",
                !.config.cfgAsync = IF ok THEN s.config.loading ELSE @]

initSettings(s, userOpts) ==
  LET was == s.config.settings
  IN  IF was # Unset
      THEN initLogged(s, "initSettings", userOpts, "throw", was)
      ELSE initLogged([s EXCEPT !.config.settings = userOpts],
                      "initSettings", userOpts, "ok", was)

\* The configuration a function has loaded.
loadedBy(fn) ==
  CASE fn = "load" -> config.cfg
    [] fn = "loadAsync" -> config.cfgAsync
    [] fn = "initSettings" -> config.settings

\* ------------------------------------------------- sdk buffer.ts and WAL
\* buf, head and tail are the ring of buffer.ts (slot value 0: undefined);
\* wal is the content of the file at settings.walPath and pending the
\* fs.appendFile calls not yet completed.  handed holds the entries that
\* drainAndPost took out of the ring for the flusher, accepted the entries
\* ever passed to enqueue, up tells that the process is running.
NoBuffer(size) ==
  [buf |-> [i \in 0..(size - 1) |-> 0], head |-> 0, tail |-> 0,
   wal |-> <<>>, pending |-> <<>>, handed |-> {}, accepted |-> {},
   up |-> TRUE]

spillToWal(s, e) == [s EXCEPT !.buffer.pending = Append(@, e)]

\* enqueue of buffer.ts.
bufferEnqueue(s, entry) ==
  LET b == s.buffer
      head1 == (b.head + 1) % s.batchSize
      s1 == [s EXCEPT !.buffer.buf[b.head] = entry, !.buffer.head = head1]
  IN  IF head1 = b.tail
      THEN [spillToWal(s1, s1.buffer.buf[b.tail])
              EXCEPT !.buffer.tail = (b.tail + 1) % s.batchSize]
      ELSE s1

RECURSIVE drainLoopBuf(_, _, _)
drainLoopBuf(s, b, batch) ==
  IF b.tail # b.head /\ Len(batch) < s.batchSize
  THEN drainLoopBuf(s, [b EXCEPT !.buf[b.tail] = 0,
                                 !.tail = (b.tail + 1) % s.batchSize],
                    Append(batch, b.buf[b.tail]))
  ELSE [b EXCEPT !.handed = @ \cup Range(batch)]

drainAndPost(s) ==
  IF s.buffer.tail = s.buffer.head THEN s
  ELSE [s EXCEPT !.buffer = drainLoopBuf(s, s.buffer, <<>>)]

\* A line of the WAL that JSON.parse rejects.
Malformed == -1

\* The entries the ring holds, oldest first.
BufferItems(b) ==
  LET size == Cardinality(DOMAIN b.buf)
  IN  [i \in 1..((b.head + size - b.tail) % size) |->
         b.buf[(b.tail + i - 1) % size]]

RECURSIVE replayLines(_, _, _)
replayLines(s, lines, i) ==
  IF i > Len(lines) THEN s
  ELSE IF lines[i] = Malformed THEN replayLines(s, lines, i + 1)
  ELSE replayLines(bufferEnqueue(s, lines[i]), lines, i + 1)

\* replayWal: every line of the file is enqueued, then the file is
\* truncated.
replayWal(s) ==
  [replayLines(s, s.buffer.wal, 1) EXCEPT !.buffer.wal = <<>>]

\* ------------------------------------------------- sdk flush-worker.ts
\* A batch is named by the order in which the main thread sent it.  queue is
\* the retry queue of the worker, cur the item whose POST is in flight (0:
\* none), timers the setTimeout calls that will push an item back.  posts
\* counts the POSTs made for a batch, delivered lists the batches the
\* endpoint accepted, dropped holds the batches given up.
NoItem == [batch |-> 0, attempt |-> 0]

NoWorker ==
  [queue |-> <<>>, cur |-> NoItem, timers |-> {}, nReceived |-> 0,
   posts |-> [b \in Recs |-> 0], delivered |-> <<>>, dropped |-> {}]

\* parentPort listener.
workerMessage(s, payload) ==
  [s EXCEPT !.worker.queue = Append(@, [batch |-> payload, attempt |-> 0]),
            !.worker.nReceived = payload]

\* loop: queue.shift() and the start of client.post.
workerShift(s) ==
  LET item == Head(s.worker.queue)
  IN  [s EXCEPT !.worker.queue = Tail(@), !.worker.cur = item,
                !.worker.posts[item.batch] = @ + 1]

\* loop: the POST settled; on failure the item is pushed back after the
\* back-off unless its attempt number has reached the limit.
workerPostSettled(s, ok) ==
  LET item == s.worker.cur
      s1 == [s EXCEPT !.worker.cur = NoItem]
  IN  IF ok THEN [s1 EXCEPT !.worker.delivered = Append(@, item.batch)]
      ELSE IF item.attempt < WORKER_RETRIES
      THEN [s1 EXCEPT !.worker.timers = @ \cup
              {[item |-> item,
                backoff |-> Pow2(item.attempt) * WORKER_BACKOFF_MS]}]
      ELSE [s1 EXCEPT !.worker.dropped = @ \cup {item.batch}]

\* The setTimeout callback of a failed item.
workerRequeue(s, t) ==
  [s EXCEPT !.worker.timers = @ \ {t},
            !.worker.queue =
               Append(@, [t.item EXCEPT !.attempt = t.item.attempt + 1])]

\* ------------------------------------------------- sdk ring-buffer.ts
\* class RingBuffer as operators on the object r (slot value 0: undefined).
rbNew(capacity) ==
  [size |-> capacity, buf |-> [i \in 0..(capacity - 1) |-> 0],
   head |-> 0, tail |-> 0]

\* push: the object afterwards and the value returned.
rbPush(r, val) ==
  LET next == (r.head + 1) % r.size
  IN  IF next = r.tail THEN [ring |-> r, ok |-> FALSE]
      ELSE [ring |-> [r EXCEPT !.buf[r.head] = val, !.head = next],
            ok |-> TRUE]

RECURSIVE rbPopLoop(_, _, _)
rbPopLoop(r, n, out) ==
  IF r.tail # r.head /\ Len(out) < n
  THEN rbPopLoop([r EXCEPT !.tail = (r.tail + 1) % r.size], n,
                 Append(out, r.buf[r.tail]))
  ELSE [ring |-> r, out |-> out]

popMany(r, n) == rbPopLoop(r, n, <<>>)

rbLength(r) == (r.head + r.size - r.tail) % r.size

\* A RingBuffer driven directly: made tells that the constructor has run,
\* pushes counts the calls of push, accepted those that returned true,
\* popped the items popMany returned; before is the number of items held
\* when the last push was called, ok its result, same whether it left the
\* object unchanged.
NoRb ==
  [made |-> FALSE, ring |-> rbNew(1), pushes |-> 0, accepted |-> 0,
   popped |-> 0, before |-> 0, ok |-> TRUE, same |-> FALSE]

\* ------------------------------------------------------ sdk logger.ts
\* The HTTP logger after configure(): ring is its RingBuffer, wal the
\* content of the WAL file, file that of the local log file, posts the
\* axios.post calls in flight (each with the batch and the attempt number of
\* the flush call that made it), timers the pending setTimeout calls of
\* failed flushes.  A timer holds the attempt number only; its field failed
\* records, for the claims, the batch whose failure set it.  accepted holds
\* the entries passed to send, delivered those of a successful POST, failed
\* those of a failed one.
NoLogger(size) ==
  [ring |-> rbNew(size * LOGGER_RING_FACTOR), wal |-> <<>>, file |-> <<>>,
   posts |-> {}, timers |-> <<>>, accepted |-> {}, delivered |-> {},
   failed |-> {}]

\* flush(attempt): pops a batch from the ring and posts it.
loggerFlush(s, attempt) ==
  LET res == popMany(s.logger.ring, s.batchSize)
  IN  IF Len(res.out) = 0 THEN s
      ELSE [s EXCEPT !.logger.ring = res.ring,
                     !.logger.posts =
                        @ \cup {[batch |-> res.out, attempt |-> attempt]}]

\* send(entry) of a configured logger.
loggerSend(s, entry) ==
  LET s1 == [s EXCEPT !.logger.wal = Append(@, entry),
                      !.logger.ring = rbPush(@, entry).ring,
                      !.logger.accepted = @ \cup {entry}]
  IN  IF rbLength(s1.logger.ring) >= s.batchSize THEN loggerFlush(s1, 0)
      ELSE s1

\* The setInterval callback.
loggerTick(s) ==
  IF rbLength(s.logger.ring) # 0 THEN loggerFlush(s, 0) ELSE s

\* flush after `await axios.post`: wal.clear() on success; on failure a
\* timer for flush(attempt + 1), or the batch goes to the file and the WAL.
loggerPostSettled(s, p, ok) ==
  LET s1 == [s EXCEPT !.logger.posts = @ \ {p}]
  IN  IF ok
      THEN [s1 EXCEPT !.logger.wal = <<>>,
                      !.logger.delivered = @ \cup Range(p.batch)]
      ELSE LET s2 == [s1 EXCEPT !.logger.failed = @ \cup Range(p.batch)]
           IN  IF p.attempt < LOGGER_RETRIES
               THEN [s2 EXCEPT !.logger.timers = Append(@,
                       [attempt |-> p.attempt + 1,
                        delay |-> LOGGER_BACKOFF_MS * Pow2(p.attempt),
                        failed |-> p.batch])]
               ELSE [s2 EXCEPT !.logger.file = @ \o p.batch,
                               !.logger.wal = @ \o p.batch]

\* The setTimeout callback of a failed flush.
loggerRetry(s, i) ==
  LET t == s.logger.timers[i]
      rest == [k \in 1..(Len(s.logger.timers) - 1) |->
                 IF k < i THEN s.logger.timers[k] ELSE s.logger.timers[k + 1]]
  IN  loggerFlush([s EXCEPT !.logger.timers = rest], t.attempt)

\* ---------------------------------------------- canonical serialization
\* A JSON value is a primitive (named by its JSON text), an array (items: its
\* elements) or an object (items: its properties [k, v] in insertion order,
\* which is the order of Object.keys for keys that are not integers).  A
\* string is the sequence of its pieces.
Prim(text) == [kind |-> "prim", prim |-> text, items |-> <<>>]
Arr(items) == [kind |-> "arr", prim |-> "", items |-> items]
Obj(props) == [kind |-> "obj", prim |-> "", items |-> props]

JsonKeys == {"hash", "prevHash"}
JsonPrims == {Prim("1"), Prim("null")}

KeysOf(v) == [i \in 1..Len(v.items) |-> v.items[i].k]
Get(v, key) == (CHOOSE i \in 1..Len(v.items) : v.items[i].k = key)

\* Object.keys(val), the mutation that leaves .sort() out.
insertionKeys(val) == KeysOf(val)

\* Object.keys(val).sort()
sortedKeys(val) ==
  SortSeq(KeysOf(val), LAMBDA a, b : KeyRank[a] < KeyRank[b])

RECURSIVE join(_, _)
join(parts, sep) ==
  IF Len(parts) = 0 THEN <<>>
  ELSE IF Len(parts) = 1 THEN parts[1]
  ELSE parts[1] \o sep \o join(Tail(parts), sep)

stringifyKey(k) == <<"\"", k, "\"">>

RECURSIVE canonicalJSON(_)
canonicalJSON(val) ==
  IF val.kind = "prim" THEN <<val.prim>>
  ELSE IF val.kind = "arr"
  THEN <<"[">> \o
       join([i \in 1..Len(val.items) |-> canonicalJSON(val.items[i])],
            <<",">>) \o <<"]">>
  ELSE LET keys == sortedKeys(val)
           body == [i \in 1..Len(keys) |->
                      stringifyKey(keys[i]) \o <<":">> \o
                      canonicalJSON(val.items[Get(val, keys[i])].v)]
       IN  <<"{">> \o join(body, <<",">>) \o <<"}">>

\* The JSON values of nesting depth up to d: arrays of at most one element,
\* objects over JsonKeys in every insertion order.
RECURSIVE JsonValues(_)
JsonValues(d) ==
  IF d = 0 THEN JsonPrims
  ELSE LET sub == JsonValues(d - 1)
           n == Cardinality(JsonKeys)
           props == UNION {[1..m -> [k : JsonKeys, v : sub]] : m \in 0..n}
           distinct(p) == \A i, j \in 1..Len(p) : i # j => p[i].k # p[j].k
       IN  JsonPrims
             \cup {Arr(s) : s \in UNION {[1..m -> sub] : m \in 0..1}}
             \cup {Obj(p) : p \in {q \in props : distinct(q)}}

AllJson == JsonValues(MaxDepth)

\* Equality as JSON values: arrays in order, objects as key-value maps.
RECURSIVE JsonEqual(_, _)
JsonEqual(x, y) ==
  /\ x.kind = y.kind
  /\ x.prim = y.prim
  /\ Len(x.items) = Len(y.items)
  /\ IF x.kind = "arr"
     THEN \A i \in 1..Len(x.items) : JsonEqual(x.items[i], y.items[i])
     ELSE IF x.kind = "obj"
     THEN /\ Range(KeysOf(x)) = Range(KeysOf(y))
          /\ \A key \in Range(KeysOf(x)) :
                JsonEqual(x.items[Get(x, key)].v, y.items[Get(y, key)].v)
     ELSE TRUE

\* x and y are the values last canonicalised, cx and cy the results.
NoCanon == [x |-> Prim("null"), y |-> Prim("null"), cx |-> <<>>, cy |-> <<>>]

Start(file) ==
  /\ batchSize \in 1..MaxBatch
  /\ urlValid \in BOOLEAN
  /\ outbox = file
  /\ ring = [i \in 0..(2 * batchSize - 1) |-> 0]
  /\ head = 0 /\ len = 0
  /\ bootstrapDone = FALSE /\ timerInitialized = FALSE
  /\ flushTimer = "null" /\ closing = FALSE
  /\ pLimitPromise = "null" /\ limit = 0
  /\ waiters = <<>> /\ limQueue = <<>>
  /\ fl = [c \in FlushIds |-> IdleCall]
  /\ enq = [r \in Recs |-> "idle"]
  /\ nEnq = 0
  /\ sd = [pc |-> "running", phase |-> "none", attempt |-> 0, max |-> 0,
           dattempt |-> 0, elapsed |-> 0]
  /\ sent = [r \in Recs |-> 0]
  /\ nPosts = 0
  /\ lastPost = <<>>
  /\ exitCode = -1
  /\ preShutdown = {}
  /\ obs = [op |-> "none", item |-> 0, n |-> 0, out |-> <<>>]
  /\ chainHead = NullHash
  /\ chainLog = <<>>
  /\ wrapped = [c \in WrapIds |-> [pc |-> "idle", prompt |-> ""]]
  /\ calls = [c \in WrapIds |-> IdleWrap]
  /\ batcher = NoBatcher
  /\ config = NoConfig
  /\ buffer = NoBuffer(batchSize)
  /\ worker = NoWorker
  /\ rb = NoRb
  /\ logger = NoLogger(batchSize)
  /\ canonRun = NoCanon

Init == Start(<<>>)

Next ==
  \/ \E r \in Recs : Enqueue(r)
  \/ \E r \in Recs : EnqBooted(r)
  \/ \E r \in Recs : EnqWritten(r)
  \/ \E r \in Recs : EnqStatted(r)
  \/ \E c \in FlushIds : TimerTick(c)
  \/ \E c \in FlushIds : CallerFlush(c)
  \/ \E c \in FlushIds : FlushBooted(c)
  \/ PLimitLoaded
  \/ \E c \in FlushIds : FlushRead(c)
  \/ \E c \in FlushIds : HttpOk(c)
  \/ \E c \in FlushIds : HttpFail(c)
  \/ \E c \in FlushIds : RetrySlept(c)
  \/ \E c \in FlushIds : FlushWritten(c)
  \/ \E c \in FlushIds : RestoreRead(c)
  \/ \E c \in FlushIds : RestoreWritten(c)
  \/ Signal
  \/ SdRetryDelayed
  \/ SdDrainRead
  \/ SdDrainDelayed

Spec == Init /\ [][Next]_vars

\* Fairness: every operation the program has issued completes (filesystem
\* operations, the dynamic import, timers it sleeps on), and every fetch is
\* answered.  Whether a fetch is answered with success is up to the
\* endpoint, so there is no fairness on HttpOk.
Fairness ==
  /\ \A r \in Recs : /\ WF_vars(EnqBooted(r))
                     /\ WF_vars(EnqWritten(r))
                     /\ WF_vars(EnqStatted(r))
  /\ \A c \in FlushIds : /\ WF_vars(FlushBooted(c))
                         /\ WF_vars(FlushRead(c))
                         /\ WF_vars(HttpFail(c))
                         /\ WF_vars(RetrySlept(c))
                         /\ WF_vars(FlushWritten(c))
                         /\ WF_vars(RestoreRead(c))
                         /\ WF_vars(RestoreWritten(c))
  /\ WF_vars(PLimitLoaded)
  /\ WF_vars(SdRetryDelayed)
  /\ WF_vars(SdDrainRead)
  /\ WF_vars(SdDrainDelayed)

LiveSpec == Init /\ [][Next]_vars /\ Fairness

\* Scenario E1: the endpoint answers every request with success, nobody but
\* the timer flushes, no signal arrives, and the first tick comes after the
\* first two enqueue calls have returned.
E1Tick(c) ==
  /\ nEnq >= 2 /\ InFlight = {}
  /\ TimerTick(c)

E1Next ==
  \/ \E r \in Recs : Enqueue(r)
  \/ \E r \in Recs : EnqBooted(r)
  \/ \E r \in Recs : EnqWritten(r)
  \/ \E r \in Recs : EnqStatted(r)
  \/ \E c \in FlushIds : E1Tick(c)
  \/ PLimitLoaded
  \/ \E c \in FlushIds : FlushRead(c)
  \/ \E c \in FlushIds : HttpOk(c)
  \/ \E c \in FlushIds : FlushWritten(c)

E1Init == Init /\ urlValid

E1Spec == E1Init /\ [][E1Next]_vars

\* Scenario E4: the process starts on an outbox that an earlier run left
\* behind (its lines are written 0), and only enqueue calls are made: no
\* timer tick falls into the run, nobody flushes, no signal arrives.
OldLine == 0

E4Init == \E n \in 0..MaxOld : Start([i \in 1..n |-> OldLine])

E4Next ==
  \/ \E r \in Recs : Enqueue(r)
  \/ \E r \in Recs : EnqBooted(r)
  \/ \E r \in Recs : EnqWritten(r)
  \/ \E r \in Recs : EnqStatted(r)

E4Spec == E4Init /\ [][E4Next]_vars

\* The ring driven directly: ringPush and ringDrip applied in any order, the
\* items numbered in the order of the pushes; obs holds the last call, its
\* argument and what it returned.
RingPush(item) ==
  /\ item = obs.item + 1
  /\ Set([ringPush(St, item) EXCEPT
             !.obs = [op |-> "push", item |-> item, n |-> 0, out |-> <<>>]])

RingDrip(n) ==
  LET d == ringDrip(St, n)
  IN  Set([d.st EXCEPT
             !.obs = [op |-> "drip", item |-> obs.item, n |-> n,
                      out |-> d.out]])

RingNext ==
  \/ \E item \in 1..MaxPush : RingPush(item)
  \/ \E n \in 0..(MaxBatch + 1) : RingDrip(n)

RingSpec == Init /\ [][RingNext]_vars

\* Wrapped completion calls running concurrently: each awaits the model and
\* then links and sends its entry in one synchronous run.
WrapCall(c) ==
  /\ wrapped[c].pc = "idle"
  /\ \E prompt \in Prompts :
        Set([St EXCEPT !.wrapped[c] = [pc |-> "awaiting", prompt |-> prompt]])

WrapReturned(c) ==
  /\ wrapped[c].pc = "awaiting"
  /\ \E ts \in Clock : Set(wrapReturned(St, c, ts))

ChainNext ==
  \/ \E c \in WrapIds : WrapCall(c)
  \/ \E c \in WrapIds : WrapReturned(c)

ChainSpec == Init /\ [][ChainNext]_vars

\* wrapLLM over the in-memory Batcher: wrapped calls run concurrently, the
\* interval timer and the signals fire at any time after the instance exists.
WrapLLMCall(c) ==
  /\ ~batcher.exited /\ calls[c].pc = "idle"
  /\ Set([St EXCEPT !.calls[c].pc = "calling"])

LlmSettled(c) ==
  /\ ~batcher.exited /\ calls[c].pc = "calling"
  /\ \E llmOk, jsonOk \in BOOLEAN : Set(llmSettled(St, c, llmOk, jsonOk))

EncryptSettled(c) ==
  /\ ~batcher.exited /\ calls[c].pc = "encrypting"
  /\ \E ok \in BOOLEAN : Set(encryptSettled(St, c, ok))

BatcherTick ==
  /\ ~batcher.exited /\ batcher.inst
  /\ Set(BatcherFlush(St))

FlushBatchSettled ==
  /\ ~batcher.exited /\ batcher.flushing
  /\ \E ok \in BOOLEAN : Set(BatcherFlushSettled(St, ok))

BatcherSignal(sig) ==
  /\ ~batcher.exited /\ sig \in batcher.handlers
  /\ Set(BatcherOnSignal(St, sig))

NodeNext ==
  \/ \E c \in WrapIds : WrapLLMCall(c)
  \/ \E c \in WrapIds : LlmSettled(c)
  \/ \E c \in WrapIds : EncryptSettled(c)
  \/ BatcherTick
  \/ FlushBatchSettled
  \/ \E sig \in Signals : BatcherSignal(sig)

NodeSpec == Init /\ [][NodeNext]_vars

\* The initialisation functions called any number of times, with any
\* configuration.
Load(userCfg) ==
  Len(config.inits) < MaxInit /\ Set(load(St, userCfg))

LoadAsync(userCfg) ==
  Len(config.inits) < MaxInit /\ Set(loadAsync(St, userCfg))

DoLoadSettled ==
  /\ config.loadPromise = "pending"
  /\ \E ok \in BOOLEAN : Set(doLoadSettled(St, ok))

InitSettings(userOpts) ==
  Len(config.inits) < MaxInit /\ Set(initSettings(St, userOpts))

ConfigNext ==
  \/ \E userCfg \in UserCfgs : Load(userCfg)
  \/ \E userCfg \in UserCfgs : LoadAsync(userCfg)
  \/ DoLoadSettled
  \/ \E userOpts \in UserCfgs : InitSettings(userOpts)

ConfigSpec == Init /\ [][ConfigNext]_vars

\* Scenario E2: the process restarts on a non-empty outbox and nothing is
\* enqueued; the endpoint may fail a request but does not fail for ever.
\* The application may call PersistentBatcher.flush() but need not.  An
\* active interval timer keeps firing.
E2Init == \E n \in 1..MaxOld : Start([i \in 1..n |-> OldLine]) /\ urlValid

E2Next ==
  \/ \E c \in FlushIds : TimerTick(c)
  \/ \E c \in FlushIds : CallerFlush(c)
  \/ \E c \in FlushIds : FlushBooted(c)
  \/ PLimitLoaded
  \/ \E c \in FlushIds : FlushRead(c)
  \/ \E c \in FlushIds : HttpOk(c)
  \/ \E c \in FlushIds : HttpFail(c)
  \/ \E c \in FlushIds : RetrySlept(c)
  \/ \E c \in FlushIds : FlushWritten(c)

E2Fairness ==
  /\ Fairness
  /\ \A c \in FlushIds : WF_vars(TimerTick(c)) /\ SF_vars(HttpOk(c))

E2Spec == E2Init /\ [][E2Next]_vars /\ E2Fairness

\* The sdk buffer: entries are enqueued, the flush timer drains the ring,
\* appends to the WAL complete, the process crashes and is started again.
BufEnqueue(entry) ==
  /\ buffer.up /\ entry \notin buffer.accepted
  /\ \A e \in Recs : e < entry => e \in buffer.accepted
  /\ Set(bufferEnqueue([St EXCEPT !.buffer.accepted = @ \cup {entry}],
                        entry))

DrainAndPost == buffer.up /\ Set(drainAndPost(St))

WalAppended ==
  /\ buffer.up /\ buffer.pending # <<>>
  /\ Set([St EXCEPT !.buffer.wal = Append(@, Head(buffer.pending)),
                     !.buffer.pending = Tail(@)])

\* The process dies: the ring is gone; the appends not yet completed are
\* taken to reach the file all the same.
Crash ==
  /\ buffer.up
  /\ Set([St EXCEPT !.buffer =
             [NoBuffer(batchSize) EXCEPT !.wal = buffer.wal \o buffer.pending,
                                         !.handed = buffer.handed,
                                         !.accepted = buffer.accepted,
                                         !.up = FALSE]])

\* The process dies while the first of the pending appends is being
\* written: a torn line is left in the file.
CrashTorn ==
  /\ buffer.up /\ buffer.pending # <<>>
  /\ Set([St EXCEPT !.buffer =
             [NoBuffer(batchSize) EXCEPT !.wal = Append(buffer.wal, Malformed),
                                         !.handed = buffer.handed,
                                         !.accepted = buffer.accepted,
                                         !.up = FALSE]])

Restart ==
  /\ ~buffer.up
  /\ Set(replayWal([St EXCEPT !.buffer.up = TRUE]))

BufferNext ==
  \/ \E entry \in Recs : BufEnqueue(entry)
  \/ DrainAndPost
  \/ WalAppended
  \/ Crash
  \/ CrashTorn
  \/ Restart

BufferSpec == Init /\ [][BufferNext]_vars

\* The flush worker: batches arrive from the main thread, the loop posts
\* one at a time, the endpoint accepts or fails each POST.
WorkerMessage(b) ==
  /\ b = worker.nReceived + 1
  /\ Set(workerMessage(St, b))

WorkerShift ==
  /\ worker.cur = NoItem /\ worker.queue # <<>>
  /\ Set(workerShift(St))

WorkerPostSettled ==
  /\ worker.cur # NoItem
  /\ \E ok \in BOOLEAN : Set(workerPostSettled(St, ok))

WorkerBackoffElapsed ==
  \E t \in worker.timers : Set(workerRequeue(St, t))

WorkerNext ==
  \/ \E b \in Recs : WorkerMessage(b)
  \/ WorkerShift
  \/ WorkerPostSettled
  \/ WorkerBackoffElapsed

WorkerSpec == Init /\ [][WorkerNext]_vars

\* A RingBuffer of some capacity is constructed, then pushed to and popped
\* from.
RbNew(capacity) ==
  /\ ~rb.made
  /\ Set([St EXCEPT !.rb.made = TRUE, !.rb.ring = rbNew(capacity)])

RbPush ==
  /\ rb.made /\ rb.pushes < MaxPush
  /\ LET res == rbPush(rb.ring, rb.pushes + 1)
     IN  Set([St EXCEPT !.rb.ring = res.ring,
                        !.rb.pushes = @ + 1,
                        !.rb.accepted = IF res.ok THEN @ + 1 ELSE @,
                        !.rb.before = rb.accepted - rb.popped,
                        !.rb.ok = res.ok,
                        !.rb.same = (res.ring = rb.ring)])

RbPopMany(n) ==
  /\ rb.made
  /\ LET res == popMany(rb.ring, n)
     IN  Set([St EXCEPT !.rb.ring = res.ring,
                        !.rb.popped = @ + Len(res.out)])

RingBufferNext ==
  \/ \E capacity \in 1..MaxCap : RbNew(capacity)
  \/ RbPush
  \/ \E n \in 1..MaxCap : RbPopMany(n)

RingBufferSpec == Init /\ [][RingBufferNext]_vars

\* The HTTP logger: entries are sent, the interval timer fires, POSTs
\* settle and retry timers elapse.
LoggerSend(entry) ==
  /\ entry \notin logger.accepted
  /\ \A e \in 1..MaxSend : e < entry => e \in logger.accepted
  /\ Set(loggerSend(St, entry))

LoggerTick ==
  /\ rbLength(logger.ring) # 0
  /\ Set(loggerTick(St))

LoggerPostSettled ==
  \E p \in logger.posts, ok \in BOOLEAN : Set(loggerPostSettled(St, p, ok))

LoggerRetry ==
  \E i \in 1..Len(logger.timers) : Set(loggerRetry(St, i))

LoggerNext ==
  \/ \E entry \in 1..MaxSend : LoggerSend(entry)
  \/ LoggerTick
  \/ LoggerPostSettled
  \/ LoggerRetry

LoggerSpec == Init /\ [][LoggerNext]_vars

\* canonicalJSON is applied, once in a behaviour, to two JSON values that
\* are equal as JSON values.
Canonicalise(x, y) ==
  /\ canonRun = NoCanon
  /\ Set([St EXCEPT !.canonRun = [x |-> x, y |-> y, cx |-> canonicalJSON(x),
                            cy |-> canonicalJSON(y)]])

CanonNext ==
  \E x \in AllJson : \E y \in {v \in AllJson : JsonEqual(x, v)} :
     Canonicalise(x, y)

\* The batcher's settings play no part here.
CanonInit == Init /\ batchSize = 1 /\ urlValid

CanonSpec == CanonInit /\ [][CanonNext]_vars

\* flushWithRetry called on its own, once, in a process that found an
\* outbox left by an earlier run; sd.elapsed adds up the delays it waits.
CallFlushWithRetry(maxRetries) ==
  /\ Running /\ sd.pc = "running"
  /\ Set(flushWithRetry([St EXCEPT !.sd.phase = "call"], maxRetries))

RetryNext ==
  \/ \E m \in 1..MaxRetriesArg : CallFlushWithRetry(m)
  \/ \E c \in FlushIds : FlushBooted(c)
  \/ PLimitLoaded
  \/ \E c \in FlushIds : FlushRead(c)
  \/ \E c \in FlushIds : HttpOk(c)
  \/ \E c \in FlushIds : HttpFail(c)
  \/ \E c \in FlushIds : RetrySlept(c)
  \/ \E c \in FlushIds : FlushWritten(c)
  \/ SdRetryDelayed

RetryInit == \E n \in 1..MaxOld : Start([i \in 1..n |-> OldLine])

RetrySpec == RetryInit /\ [][RetryNext]_vars

\* ================================================================ claims
Delivered(r) == sent[r] >= 1
Accepted(r) == enq[r] = "ok"
AllIdle == \A c \in FlushIds : fl[c].pc = "idle"

\* C1: a record whose enqueue returned successfully and that is in no
\* successfully POSTed batch yet is a line of the outbox file.
C1_NoSilentLoss ==
  \A r \in Recs : (Accepted(r) /\ ~Delivered(r)) => r \in Range(outbox)

\* C2: the rewrite after a successful POST that consumed k disk records
\* keeps every line that was in the outbox when the flush read it, other
\* than the first k.
C2_TruncatePrefix ==
  [][\A c \in FlushIds :
       (fl[c].pc = "writing" /\ fl'[c].pc # "writing") =>
          \A i \in (diskRecordsUsed(fl[c]) + 1)..Len(fl[c].fileAtRead) :
             fl[c].fileAtRead[i] \in Range(outbox')]_vars

\* C3: when the process exits with code 0, every record whose enqueue had
\* returned successfully before the shutdown began was part of exactly one
\* successful ingest request.
C3_ExactlyOnceOrNonZero ==
  exitCode = 0 => \A r \in preShutdown : sent[r] = 1

\* The at-least-once reading of C3.
AtLeastOnceOrNonZero ==
  exitCode = 0 => \A r \in preShutdown : Delivered(r)

\* C4: in scenario E1 with batchSize 2, once R1 and R2 are enqueued and a
\* flush has run, exactly one POST was made, it carried [R1, R2], and the
\* outbox is empty.
C4_HappyPath ==
  (batchSize = 2 /\ nEnq = 2 /\ AllIdle /\ nPosts >= 1) =>
     (nPosts = 1 /\ lastPost = <<1, 2>> /\ outbox = <<>>)

\* C5: at most one flushOnce call is between its ring drip and the end of
\* its POST / outbox rewrite.
C5_SingleFlush ==
  Cardinality({c \in FlushIds : fl[c].pc \in BodyPcs}) <= 1

\* C6: a flushOnce call that found a flush running never drips, reads or
\* POSTs, not even after the running flush has ended.
C6_BusyCallIsNoOp ==
  [][\A c \in FlushIds :
       fl[c].pc = "queued" => fl'[c].pc \notin BodyPcs]_vars

\* C7: closing is never reset, and an enqueue call made while closing is set
\* fails with the shutdown error and leaves the outbox and the ring as they
\* were.
C7_ShutdownRejects ==
  [][/\ closing => closing'
     /\ \A r \in Recs :
          (closing /\ enq[r] = "idle" /\ enq'[r] # "idle") =>
            /\ enq'[r] = "shutdownErr"
            /\ outbox' = outbox /\ ring' = ring
            /\ head' = head /\ len' = len]_vars

C7_Witness ==
  \E r \in Recs : enq[r] = "shutdownErr" /\ closing /\ outbox # <<>>

\* C8: the exit code is 0 exactly when the drain completed (the outbox is
\* empty at exit and the ring holds no undelivered record), and it is 1 when
\* an accepted record is still unsent.
C8_ExitCode ==
  exitCode # -1 =>
    /\ exitCode = 0 <=>
         (outbox = <<>> /\ \A r \in Range(RingItems(St)) : Delivered(r))
    /\ (\E r \in Recs : Accepted(r) /\ ~Delivered(r)) => exitCode = 1

\* C9: once the signal handler has started, the process eventually exits.
C9_ShutdownTerminates == closing ~> (exitCode # -1)

\* C10: no flushOnce call in flight was started by the interval timer after
\* gracefulShutdown began.
C10_TimerCanceled == \A c \in FlushIds : ~fl[c].late

\* C11: in scenario E4 backpressure follows the size the outbox had when the
\* enqueue call was made: above MAX_FILE_BYTES the call fails with the
\* backpressure error, below MAX_FILE_BYTES it succeeds, and below 80% of
\* MAX_FILE_BYTES it never fails with backpressure.
C11_BackpressureFollowsSize ==
  [][\A r \in Recs :
       (enq[r] = "stat" /\ enq'[r] # "stat") =>
          LET before == (Len(outbox) - 1) * RecBytes
          IN  /\ before > MAX_FILE_BYTES => enq'[r] = "backpressure"
              /\ before < MAX_FILE_BYTES => enq'[r] = "ok"
              /\ before * 10 < MAX_FILE_BYTES * 8 =>
                    enq'[r] # "backpressure"]_vars

\* C12: a record whose enqueue failed with the backpressure error is neither
\* a line of the outbox nor an item of the ring.
C12_BackpressureNoEffect ==
  \A r \in Recs :
     enq[r] = "backpressure" =>
        (r \notin Range(outbox) /\ r \notin Range(RingItems(St)))

\* C13: the request of every ingest POST in flight has an Idempotency-Key
\* header, and its value is the leafHash of the first record of the batch.
C13_IdempotencyKey ==
  \A c \in FlushIds :
     fl[c].pc = "posting" =>
        /\ "Idempotency-Key" \in DOMAIN fetchHeaders
        /\ fetchHeaders["Idempotency-Key"] = fl[c].batch[1]

\* C14: a Transport.post of a flush makes at most DEFAULT_RETRIES HTTP
\* attempts, and after the failure of the last one it does not sleep for
\* another attempt.
C14_AtMostFiveAttempts ==
  \A c \in FlushIds :
     /\ fl[c].pc \in {"posting", "backoff"} =>
           fl[c].attempt <= DEFAULT_RETRIES
     /\ fl[c].pc = "backoff" => fl[c].attempt < DEFAULT_RETRIES

\* C15: after a response with a 4xx status other than 429 the transport
\* does not wait for another attempt.
C15_ClientErrorNotRetried ==
  \A c \in FlushIds :
     fl[c].pc = "backoff" =>
        ~(fl[c].status >= 400 /\ fl[c].status < 500 /\ fl[c].status # 429)

\* C16: the number of items in the ring is between 0 and 2 x batchSize, and
\* head is an index of the ring.
C16_RingBounded ==
  /\ 0 <= len /\ len <= 2 * batchSize
  /\ 0 <= head /\ head < 2 * batchSize

\* A push on a full ring has happened.
C16_Witness ==
  obs.op = "push" /\ len = 2 * batchSize /\ obs.item > 2 * batchSize

RingItemsNext ==
  [i \in 1..len' |-> ring'[(head' + i - 1) % (2 * batchSize')]]

\* C17: ringPush appends the item, discarding exactly the oldest item when
\* the ring is full; ringDrip(n) returns the min(n, len) oldest items in
\* insertion order and leaves the others in order.
C17_RingFifo ==
  [][LET items == RingItems(St)
         k == Min(obs'.n, len)
     IN  /\ obs'.op = "push" =>
               RingItemsNext =
                 Append(IF len < 2 * batchSize THEN items ELSE Tail(items),
                        obs'.item)
         /\ obs'.op = "drip" =>
               /\ obs'.out = SubSeq(items, 1, k)
               /\ RingItemsNext = SubSeq(items, k + 1, len)]_vars

\* A drip that took a part of a ring that had wrapped around.
C17_Witness ==
  /\ obs.op = "drip" /\ obs.item > 2 * batchSize
  /\ Len(obs.out) >= 2 /\ len >= 1

C19_LeafCoversPrevHash ==
  /\ \A i, j \in 1..Len(chainLog) :
        (chainLog[i].core = chainLog[j].core
           /\ chainLog[i].prevHash # chainLog[j].prevHash)
        => chainLog[i].hash # chainLog[j].hash
  /\ Len(chainLog) >= 1 => chainHead = chainLog[Len(chainLog)].hash

\* C20: with the records numbered in the order of their enqueue calls, the
\* lines of the outbox file are in enqueue order at all times (a line is
\* never followed by a line of an earlier record).
C20_OutboxInEnqueueOrder ==
  \A i, j \in 1..Len(outbox) : i < j => outbox[i] <= outbox[j]

\* C21: when the wrapped LLM call succeeds, the wrapper resolves with the
\* LLM result, whatever happens to serialisation, encryption, hashing or
\* enqueue.
C21_AuditErrorsNotSurfaced ==
  \A c \in WrapIds :
     (calls[c].llm = "resolved" /\ calls[c].pc \in {"resolved", "rejected"})
     => (calls[c].pc = "resolved" /\ calls[c].value = LlmResult(c))

C23_InitIdempotent ==
  \A i \in 1..Len(config.inits) :
     LET call == config.inits[i]
     IN  call.loaded # Unset =>
           (call.result = "ok" /\ loadedBy(call.fn) = call.loaded)
\* C24: an enqueue that brings the number of buffered records to batchSize
\* or more schedules a flush: when its push is done, a flush call is under
\* way.
C24_EnqueueSchedulesFlush ==
  [][\A r \in Recs :
       (enq[r] = "append" /\ enq'[r] = "stat" /\ len' >= batchSize)
       => \E c \in FlushIds : fl'[c].pc # "idle"]_vars
\* C25: after a restart on a non-empty outbox the timer is started by the
\* initialisation and the records left in the outbox are eventually POSTed,
\* without an enqueue.
C25_RestartDelivers == <>(OldLine \in Range(lastPost))
\* C26: in the in-memory Batcher the records of a batch whose delivery
\* failed are back in the queue when the failed flush ends.
C26_FailedBatchRequeued ==
  [][(batcher.flushing /\ batcher'.flushFailures > batcher.flushFailures)
     => \A r \in Range(batcher.batch) : r \in Range(batcher'.queue)]_vars

\* C27: in the in-memory Batcher, when the process has exited on a signal
\* and no delivery has failed, every record that was enqueued has been
\* accepted by the endpoint, or at least was in the request in flight at
\* the exit.
C27_ShutdownSendsAll ==
  (batcher.exited /\ batcher.flushFailures = 0)
  => \A r \in batcher.enqueued :
        r \in Range(batcher.ingested) \cup Range(batcher.batch)
\* C28: at the moment of a crash every entry that enqueue accepted and that
\* was not handed to the flusher is in the write-ahead log.
C28_NoDropOnCrash ==
  ~buffer.up =>
     \A e \in buffer.accepted \ buffer.handed : e \in Range(buffer.wal)
\* C29: a batch is POSTed at most 5 times in total, a batch is dropped only
\* after 5 POSTs, and the back-off after failed attempt a (from 0) is
\* 100 * 2^a ms.
C29_FiveAttemptsThenDrop ==
  /\ \A b \in Recs : worker.posts[b] <= 5
  /\ \A b \in worker.dropped : worker.posts[b] = 5
  /\ \A t \in worker.timers : t.backoff = 100 * Pow2(t.item.attempt)

\* C30: the endpoint accepts the batches in the order in which the worker
\* received them, each at most once.
C30_DeliveredInOrder ==
  \A i, j \in 1..Len(worker.delivered) :
     i < j => worker.delivered[i] < worker.delivered[j]
\* C32: a RingBuffer of capacity c accepts a push whenever it holds fewer
\* than c items and refuses one, unchanged, only when it holds c; length is
\* the number of accepted pushes minus the number of popped items.
C32_HoldsCapacity ==
  (rb.made /\ rb.pushes > 0) =>
     /\ rb.ok <=> rb.before < rb.ring.size
     /\ ~rb.ok => rb.same
     /\ rbLength(rb.ring) = rb.accepted - rb.popped
LoggerInFlight == UNION {Range(p.batch) : p \in logger.posts}
LoggerAwaitingRetry ==
  UNION {Range(logger.timers[i].failed) : i \in 1..Len(logger.timers)}

\* C31: an entry of a batch whose POST failed is not lost: it has been
\* delivered by a retry, is being posted, is due to be retried, or has been
\* written to the local file and the WAL.
C31_FailedBatchNotLost ==
  \A e \in logger.failed :
     \/ e \in logger.delivered
     \/ e \in LoggerInFlight
     \/ e \in LoggerAwaitingRetry
     \/ e \in Range(logger.file) /\ e \in Range(logger.wal)

\* C40: the WAL holds every entry accepted by send that has not been part
\* of a successful POST.
C40_WalHoldsUndelivered ==
  \A e \in logger.accepted \ logger.delivered : e \in Range(logger.wal)
\* The pieces of a serialised string that are object keys, and whether two
\* of them belong to the same object.
IsKeyAt(str, k) ==
  /\ str[k] \in JsonKeys
  /\ k > 1 /\ str[k - 1] = "\""
DepthAt(str, k) ==
  Cardinality({i \in 1..k : str[i] = "{"}) -
  Cardinality({i \in 1..k : str[i] = "}"})
SameObject(str, k, m) ==
  /\ DepthAt(str, k) = DepthAt(str, m)
  /\ \A i \in k..m : DepthAt(str, i) >= DepthAt(str, k)
KeysEmittedSorted(str) ==
  \A k, m \in 1..Len(str) :
     (k < m /\ IsKeyAt(str, k) /\ IsKeyAt(str, m) /\ SameObject(str, k, m))
        => KeyRank[str[k]] < KeyRank[str[m]]

\* C33: two JSON values that are equal as JSON values, whatever the
\* insertion order of their keys, have the same canonical string, and the
\* keys of every object in it are emitted in sorted order.
C33_CanonicalDeterministic ==
  /\ JsonEqual(canonRun.x, canonRun.y) => canonRun.cx = canonRun.cy
  /\ KeysEmittedSorted(canonRun.cx)

C33_Witness ==
  /\ canonRun.x # canonRun.y
  /\ JsonEqual(canonRun.x, canonRun.y)
  /\ canonRun.x.kind = "obj"
  /\ \E i \in 1..Len(canonRun.x.items) : canonRun.x.items[i].v.kind = "obj"
  /\ canonRun.cx = canonRun.cy
WellFormed(lines) == SelectSeq(lines, LAMBDA l : l # Malformed)

RECURSIVE IsSubSeq(_, _)
IsSubSeq(a, b) ==
  IF a = <<>> THEN TRUE
  ELSE IF b = <<>> THEN FALSE
  ELSE IF Head(a) = Head(b) THEN IsSubSeq(Tail(a), Tail(b))
  ELSE IsSubSeq(a, Tail(b))

\* C34: when replayWal has run, every well-formed entry of the WAL is in
\* the ring or still in the WAL, the ring holds entries of the WAL in file
\* order, and no entry of the ring is left in the WAL.
C34_ReplayKeepsEntries ==
  [][(~buffer.up /\ buffer'.up) =>
       LET old == WellFormed(buffer.wal)
           now == BufferItems(buffer')
       IN  /\ \A e \in Range(old) :
                e \in Range(now) \/ e \in Range(buffer'.wal)
           /\ IsSubSeq(now, old)
           /\ Range(now) \cap Range(buffer'.wal) = {}]_vars
RECURSIVE WaitedAfter(_)
WaitedAfter(n) ==
  IF n <= 0 THEN 0
  ELSE WaitedAfter(n - 1) + Min(500 * Pow2(n - 1), 4000)

\* C35: flushWithRetry with maxRetries = m calls flushOnce at most m times,
\* has waited min(500 * 2^(n-1), 4000) ms after each of the failures
\* n = 1, 2, ... before the current call, waits only after a failure n < m,
\* and throws only after the m-th failure.
C35_FlushWithRetryBounded ==
  sd.phase = "call" =>
     /\ sd.attempt <= sd.max
     /\ sd.elapsed = WaitedAfter(sd.attempt - 1)
     /\ sd.pc = "retryDelay" => sd.attempt < sd.max
     /\ sd.pc = "threw" => sd.attempt = sd.max

C35_Witness ==
  /\ sd.phase = "call" /\ sd.pc = "threw"
  /\ sd.max = 6 /\ sd.attempt = 6 /\ sd.elapsed = 11500
CountIn(q, x) == Cardinality({i \in 1..Len(q) : q[i] = x})

\* The step in which the restore of a failed flushOnce writes the outbox
\* and the call ends.
RestoreStep(c) == fl[c].pc = "restoreWrite" /\ fl'[c].pc = "idle"

\* The POST of call c has been issued.
Posting(c) == fl[c].pc \in {"posting", "backoff"}

\* C36: when a flushOnce whose POST failed ends, every record of its batch
\* is in the outbox, the dripped ring items stand at the head of the file
\* in their order, ahead of the lines that were there, and the caller gets
\* the error.
C36_RestoreAtHead ==
  [][\A c \in FlushIds :
       RestoreStep(c) =>
          /\ \A r \in Range(fl[c].batch) : r \in Range(outbox')
          /\ outbox' = fl[c].ringRecords \o outbox
          /\ c = SD => sd'.pc \in {"retryDelay", "exited", "drainDelay"}]_vars

\* C37: a POST carries between 1 and batchSize records, and a flushOnce
\* that finds the ring and the outbox empty ends without a POST.
C37_BatchWithinSize ==
  /\ [](\A c \in FlushIds :
          Posting(c) =>
             Len(fl[c].batch) >= 1 /\ Len(fl[c].batch) <= batchSize)
  /\ [][\A c \in FlushIds :
          (/\ fl[c].pc = "reading" /\ fl'[c].pc # "reading"
           /\ fl[c].ringRecords = <<>> /\ outbox = <<>>)
             => fl'[c].pc = "idle" /\ nPosts' = nPosts]_vars

C37_Witness ==
  \E c \in FlushIds :
     /\ Posting(c) /\ batchSize = MaxBatch
     /\ Len(fl[c].batch) = batchSize
     /\ Len(fl[c].ringRecords) = 1
     /\ Len(outbox) > Len(fl[c].batch)

\* C38: no POST carries the same enqueued record twice.
C38_NoDuplicateInBatch ==
  \A c \in FlushIds :
     Posting(c) =>
        \A i, j \in 1..Len(fl[c].batch) :
           i # j => fl[c].batch[i] # fl[c].batch[j]

\* C39: the restore of a failed flushOnce leaves the number of lines of
\* every record in the outbox as it was.
C39_RestoreKeepsMultiset ==
  [][\A c \in FlushIds :
       RestoreStep(c) =>
          \A r \in Recs : CountIn(outbox', r) = CountIn(outbox, r)]_vars
====
